---- MODULE Spec2Model ----
(***************************************************************************)
(* The Pulse Engine of PRISMA (services/pulse): the scheduled-job runner,  *)
(* the notification ledger and the loop orchestrator, over the durable     *)
(* SQLite store.                                                           *)
(*                                                                         *)
(* Time is counted in hours.  A stored run_at ("YYYY-MM-DD HH:MM:SS", UTC) *)
(* is the number of hours its digits denote; a JavaScript Date is the      *)
(* instant in hours since the epoch (UTC).                                 *)
(***************************************************************************)
EXTENDS Integers, Sequences, FiniteSets, TLC

\* ------------------------------------------------------------- bounds
MaxTime == 1
MaxTicks == 2
MaxCount == 2
MaxDelayed == 2
MaxUrls == 2
MaxDay == 1
MaxMinute == 12
MaxListeners == 2
MaxScans == 2
MaxSolves == 3

\* ---------------------------------------------------------- constants
HOUR == 1
DAY == 24 * HOUR
WEEK == 7 * DAY
RETENTION == 30 * DAY

JobIds == {1, 2}
Repos == {"r1", "r2"}
Users == {"u1"}
TZOffsets == {0, 1}
Recurrences == {"hourly", "daily", "weekly"}
NoRecurring == "none"
NoError == "ok"
ErrorMessages == {"invalid_grant", "ETIMEDOUT"}
Faults == {NoError} \cup ErrorMessages
Loops == {"jobs", "reminders", "email", "calendar", "repos", "cleanup"}
\* Faulty variant of start(): every loop is run at once.
EagerEvery == Loops
\* The loops start() runs at once, and those it runs 30 s later.
EagerLoops == {"jobs", "reminders"}
DelayedLoops == {"email", "calendar", "repos"}
JobKeys ==
    [userId : Users, source : {"job"}, sourceId : [id : JobIds, tag : {"", "-error"}]]

\* The findings of _runGuardianScanRemote and their messages.
Findings == {"env", "node_modules"}
RiskMsg(f) ==
    IF f = "env" THEN ".env file is committed -- secrets may be exposed!"
    ELSE "node_modules/ is committed"
\* The messages in the order of Array.prototype.sort ('.' is before 'n').
SortedMsgs == <<RiskMsg("env"), RiskMsg("node_modules")>>

\* Faulty variant of riskSignature: the findings are not told apart.
riskSignatureAny(risks) == IF risks = {} THEN <<"clean">> ELSE <<"risks">>

\* risks.map(r => r.msg).sort().join('|') || 'clean'
riskSignature(risks) ==
    IF risks = {} THEN <<"clean">>
    ELSE SelectSeq(SortedMsgs, LAMBDA m : \E f \in risks : RiskMsg(f) = m)

GuardianRepos == {"r1"}
Days == 0..MaxDay
Signatures == {riskSignature(risks) : risks \in SUBSET Findings}
GuardianKeys ==
    [userId : Users, source : {"github-alert-email"},
     sourceId : [repo : GuardianRepos, sig : Signatures, day : Days]]
    \cup [userId : Users, source : {"github"},
          sourceId : [repo : GuardianRepos, sig : Signatures]]
ReminderIds == {1, 2}
ReminderKeys == [userId : Users, source : {"reminder"}, sourceId : [id : ReminderIds]]
EventIds == {1, 2}
\* eventStart.toISOString().slice(0, 10), as a day number
EventDate(start) == start \div (24 * 60)
CalendarKeys ==
    [userId : Users, source : {"calendar"},
     sourceId : [id : EventIds, date : {EventDate(m) : m \in 0..(MaxMinute + 1)}]]
\* `guardian-${repoFullName}-${Date.now()}`: the scans of pushed folders
PushKeys ==
    [userId : Users, source : {"github"},
     sourceId : [repo : GuardianRepos, stamp : 1..MaxScans]]
IssueRepos == {"r1"}
IssueNumbers == {1, 2}
NoIssue == 0
\* `${repoFullName}#${issue.number}`
IssueKey(repo, number) == [repo |-> repo, number |-> number]
IssueKeys == {IssueKey(repo, n) : repo \in IssueRepos, n \in IssueNumbers}
\* `pr-${repoFullName}-${result.issueNumber}-${Date.now()}`
PRKeys ==
    [userId : Users, source : {"github"},
     sourceId : [pr : IssueRepos, number : IssueNumbers, stamp : 1..MaxSolves]]
Keys ==
    JobKeys \cup GuardianKeys \cup ReminderKeys \cup CalendarKeys \cup PushKeys \cup PRKeys

VARIABLES
    jobs,               \* table scheduled_jobs: id -> row
    pulse_log,          \* table pulse_log: set of [key, loggedAt]
    running,            \* PulseEngine.running
    timers,             \* PulseEngine.timers: the loops whose interval is armed
    notificationQueue,  \* PulseEngine.notificationQueue
    ticks,              \* the _runJobs invocations that have not returned yet
    now,                \* the clock (hours)
    dispatched,         \* history: handler invocations of a job in its current cycle
    attempts,           \* history: _notify calls per key since the key was last purged
    emitted,            \* history: notifications enqueued per key since the key was last purged
    recovered,          \* history: the jobs start() found running, right after start()
    thrown,             \* history: the errors that handlers threw in the last step
    delayed,            \* the pending setTimeout callbacks of start() (first email/calendar/repo check)
    began,              \* history: the loops of which a tick began in the last step
    caught,             \* history: the loops whose tick caught an exception in the last step
    cancelled,          \* history: the ids of the jobs that cancel_scheduled_job deleted
    registeredWebhooks, \* PulseEngine._registeredWebhooks: the repos taken as registered
    hooks,              \* GitHub: repo -> the urls of the repo's webhooks of this engine
    publicUrl,          \* TunnelManager.publicUrl: 0 is null, g > 0 is the g-th ngrok url
    scans,              \* history: the guardian scans made, [userId, repo, risks, day]
    reminders,          \* table reminders: id -> row
    minute,             \* the clock of the calendar check (minutes)
    events,             \* Google Calendar: event id -> row
    requests,           \* history: the requests to GitHub of the last step, [repo, method]
    listeners,          \* the number of listeners of 'repo:pushed' on the engine
    armed,              \* the event loop: loop -> the number of its intervals that are not cleared
    reply,              \* history: what the tool call of the last step returned
    processedIssues,    \* PulseEngine._processedIssues: the issue keys taken as handled
    calls,              \* the issue handlers that await solveIssueAndCreatePR
    solveStarts         \* history: issue key -> calls of solveIssueAndCreatePR in this process

vars ==
    <<jobs, pulse_log, running, timers, notificationQueue, ticks, now,
      dispatched, attempts, emitted, recovered, thrown,
      delayed, began, caught, cancelled,
      registeredWebhooks, hooks, publicUrl, scans,
      reminders, minute, events, requests, listeners, armed, reply,
      processedIssues, calls, solveStarts>>

Bump(c) == IF c < MaxCount THEN c + 1 ELSE c

\* ------------------------------------------------ the store (database)
RECURSIVE SortIds(_, _)
SortIds(J, S) ==
    IF S = {} THEN <<>>
    ELSE LET m == CHOOSE x \in S : \A y \in S :
                      \/ J[x].run_at < J[y].run_at
                      \/ (J[x].run_at = J[y].run_at /\ x <= y)
         IN  <<m>> \o SortIds(J, S \ {m})

Snapshot(J, j) ==
    [id |-> j, user_id |-> J[j].user_id, type |-> J[j].type,
     run_at |-> J[j].run_at, recurring |-> J[j].recurring]

getPendingJobs(J, t) ==
    LET due == {j \in DOMAIN J : J[j].status = "pending" /\ J[j].run_at <= t}
        ids == SortIds(J, due)
    IN  [i \in 1..Len(ids) |-> Snapshot(J, ids[i])]

createJob(J, id, userId, type, runAt, recurring) ==
    J @@ (id :> [user_id |-> userId, type |-> type, run_at |-> runAt,
                 recurring |-> recurring, status |-> "pending"])

updateJobStatus(J, id, status) ==
    IF id \notin DOMAIN J THEN J
    ELSE IF status = "running" /\ J[id].status # "pending" THEN J
    ELSE [J EXCEPT ![id].status = status]

rescheduleJob(J, id, nextRun) ==
    IF id \in DOMAIN J /\ J[id].status = "running"
    THEN [J EXCEPT ![id].status = "pending", ![id].run_at = nextRun]
    ELSE J

\* The ids of the rows cancel and list work on: the user's pending jobs.
getJobsByUser(J, userId) ==
    {j \in DOMAIN J : J[j].user_id = userId /\ J[j].status = "pending"}

deleteJob(J, id) == [j \in DOMAIN J \ {id} |-> J[j]]

hasPulseNotification(L, key) == \E r \in L : r.key = key

logPulseNotification(L, key, t) == L \cup {[key |-> key, loggedAt |-> t]}

cleanOldPulseLogs(L, t) == {r \in L : r.loggedAt >= t - RETENTION}

\* ------------------------------------------------------- Date handling
\* new Date(str) of a string without a zone designator: the digits are read
\* as local time, so the instant is the digits minus the host's offset.
DateParse(str, off) == str - off

\* Date.prototype.toISOString: the UTC digits of the instant.
toISOString(d) == d

toSqliteDatetime(d) == toISOString(d)

\* setHours(getHours() + n) / setDate(getDate() + n): local fields, no DST.
AddLocal(d, n, off) == ((d + off) + n) - off

calculateNextRun(lastRun, recurring, off) ==
    LET d == DateParse(lastRun, off)
    IN  CASE recurring = "hourly" ->
                [ok |-> TRUE, at |-> toSqliteDatetime(AddLocal(d, HOUR, off))]
          [] recurring = "daily" ->
                [ok |-> TRUE, at |-> toSqliteDatetime(AddLocal(d, DAY, off))]
          [] recurring = "weekly" ->
                [ok |-> TRUE, at |-> toSqliteDatetime(AddLocal(d, WEEK, off))]
          [] OTHER -> [ok |-> FALSE, at |-> 0]

\* ------------------------------------------------------ the engine
\* The part of the state that the synchronous code of a handler reads and
\* writes, threaded through the operators below.
Cur ==
    [jobs |-> jobs, pulse_log |-> pulse_log, queue |-> notificationQueue,
     dispatched |-> dispatched, attempts |-> attempts, emitted |-> emitted,
     thrown |-> {}]

KeyOf(n) == [userId |-> n.userId, source |-> n.source, sourceId |-> n.sourceId]

Note(userId, source, sourceId, priority, title, body) ==
    [userId |-> userId, source |-> source, sourceId |-> sourceId,
     priority |-> priority, title |-> title, body |-> body]

\* The body of a notification: for a failure, `${job.type}: ${err.message}`;
\* the text of the other notifications comes from the payload.
FailureBody(type, message) == [type |-> type, message |-> message]

PayloadBody == [type |-> "", message |-> ""]

\* Faulty variant of _notify: the ledger is not consulted.
notifyUnchecked(s, n, t) ==
    [s EXCEPT !.pulse_log = logPulseNotification(@, KeyOf(n), t),
              !.queue = Append(@, n),
              !.attempts[KeyOf(n)] = Bump(@),
              !.emitted[KeyOf(n)] = Bump(@)]

\* Faulty variant of _notify: the notification is pushed, the record is not written.
notifyUnlogged(s, n, t) ==
    IF hasPulseNotification(s.pulse_log, KeyOf(n))
    THEN [s EXCEPT !.attempts[KeyOf(n)] = Bump(@)]
    ELSE [s EXCEPT !.queue = Append(@, n),
                   !.attempts[KeyOf(n)] = Bump(@),
                   !.emitted[KeyOf(n)] = Bump(@)]

notify(s, n, t) ==
    IF hasPulseNotification(s.pulse_log, KeyOf(n))
    THEN [s EXCEPT !.attempts[KeyOf(n)] = Bump(@)]
    ELSE [s EXCEPT !.pulse_log = logPulseNotification(@, KeyOf(n), t),
                   !.queue = Append(@, n),
                   !.attempts[KeyOf(n)] = Bump(@),
                   !.emitted[KeyOf(n)] = Bump(@)]

JobSourceId(job, tag) == [id |-> job.id, tag |-> tag]

\* _executeJob up to the handler: the status update and the dispatch.
beginJob(s, job) ==
    [s EXCEPT !.jobs = updateJobStatus(@, job.id, "running"),
              !.dispatched[job.id] = Bump(@)]

\* _executeJob after the handler returned: recurrence, or done.
finishJob(s, job, off) ==
    LET nextRun == calculateNextRun(job.run_at, job.recurring, off)
        J2 == rescheduleJob(s.jobs, job.id, nextRun.at)
    IN  IF job.recurring # NoRecurring /\ nextRun.ok
        THEN [s EXCEPT !.jobs = J2,
                       !.dispatched[job.id] = IF J2 # s.jobs THEN 0 ELSE @]
        ELSE [s EXCEPT !.jobs = updateJobStatus(@, job.id, "done")]

\* Faulty variant of the catch block: the error's message is dropped.
failJobGeneric(s, job, err, t) ==
    notify([s EXCEPT !.jobs = updateJobStatus(@, job.id, "failed"),
                     !.thrown = @ \cup {[id |-> job.id, type |-> job.type, message |-> err]}],
           Note(job.user_id, "job", JobSourceId(job, "-error"), "important", "FAILED",
                FailureBody(job.type, "Scheduled task failed")),
           t)

\* _executeJob's catch block.
failJob(s, job, err, t) ==
    notify([s EXCEPT !.jobs = updateJobStatus(@, job.id, "failed"),
                     !.thrown = @ \cup {[id |-> job.id, type |-> job.type, message |-> err]}],
           Note(job.user_id, "job", JobSourceId(job, "-error"), "important", "FAILED",
                FailureBody(job.type, err)),
           t)

\* _executeSendEmail after gmail.users.messages.send resolved.
sendEmailSent(s, job, t) ==
    notify(s, Note(job.user_id, "job", JobSourceId(job, ""), "info", "OK", PayloadBody), t)

\* _executeJob from its call to its first await (send_email) or to its
\* return (the other types).  fault: the handler throws.
executeJob(s, job, fault, t, off) ==
    LET s1 == beginJob(s, job)
    IN  CASE job.type = "send_email" -> [s |-> s1, awaiting |-> TRUE]
          [] job.type = "reminder" ->
                [s |-> IF fault # NoError THEN failJob(s1, job, fault, t)
                       ELSE finishJob(
                              notify(s1, Note(job.user_id, "job", JobSourceId(job, ""),
                                              "important", "Reminder", PayloadBody), t),
                              job, off),
                 awaiting |-> FALSE]
          [] OTHER -> [s |-> finishJob(s1, job, off), awaiting |-> FALSE]

\* Faulty variant of the loop of _runJobs: the tick ends with the first job
\* that is not awaited.
tickAfterFirst(list, awaiting) ==
    IF awaiting THEN <<[job |-> Head(list), rest |-> Tail(list), pc |-> "await"]>>
    ELSE <<>>

\* A tick (an invocation of _runJobs that has not returned): the job of its
\* list it is at, awaited ("await") or not started yet ("next"), and the jobs
\* of the list after it.  The tick after Head(list) was started or has returned:
tickAfter(list, awaiting) ==
    IF awaiting THEN <<[job |-> Head(list), rest |-> Tail(list), pc |-> "await"]>>
    ELSE IF Len(list) > 1
         THEN <<[job |-> list[2], rest |-> Tail(Tail(list)), pc |-> "next"]>>
    ELSE <<>>

\* _runJobs from its call to its first await.
runJobs(s, fault, t, off) ==
    LET list == getPendingJobs(s.jobs, t)
    IN  IF list = <<>> THEN [s |-> s, tick |-> <<>>]
        ELSE LET r == executeJob(s, list[1], fault, t, off)
             IN  [s |-> r.s, tick |-> tickAfter(list, r.awaiting)]

\* Faulty variant of _recoverStuckJobs: nothing is updated.
recoverNothing(s) == s

recoverStuckJobs(s) ==
    LET stuck == {j \in DOMAIN s.jobs : s.jobs[j].status = "running"}
    IN  [s EXCEPT !.jobs = [j \in DOMAIN s.jobs |->
                               IF j \in stuck THEN [s.jobs[j] EXCEPT !.status = "pending"]
                               ELSE s.jobs[j]],
                  !.dispatched = [j \in JobIds |-> IF j \in stuck THEN 0 ELSE @[j]]]

ReplaceAt(seq, i, repl) == SubSeq(seq, 1, i - 1) \o repl \o SubSeq(seq, i + 1, Len(seq))

\* A continuation of an async function is queued as a microtask and runs
\* before any timer, I/O completion or request.
MicrotaskPending == \E i \in 1..Len(ticks) : ticks[i].pc = "next"

Commit(s) ==
    /\ jobs' = s.jobs
    /\ pulse_log' = s.pulse_log
    /\ notificationQueue' = s.queue
    /\ dispatched' = s.dispatched
    /\ attempts' = s.attempts
    /\ emitted' = s.emitted
    /\ thrown' = s.thrown

\* ------------------------------------------------------- reminders
\* `${args.date}T${args.time}:00`: the digits the user gave, which are local.
LocalString(local) == [date |-> local \div DAY, sep |-> "T", time |-> local % DAY]

\* SQLite's datetime('now'): "YYYY-MM-DD HH:MM:SS", UTC.
SqliteNow(t) == [date |-> t \div DAY, sep |-> " ", time |-> t % DAY]

CharCode(c) == IF c = " " THEN 32 ELSE 84

\* <= of two TEXT values: the date digits, then the separator, then the time.
TextLE(a, b) ==
    \/ a.date < b.date
    \/ /\ a.date = b.date
       /\ \/ CharCode(a.sep) < CharCode(b.sep)
          \/ (CharCode(a.sep) = CharCode(b.sep) /\ a.time <= b.time)

createReminder(R, id, userId, local, off) ==
    R @@ (id :> [user_id |-> userId, datetime |-> LocalString(local),
                 triggered |-> FALSE, instant |-> DateParse(local, off)])

\* SELECT * FROM reminders WHERE triggered = 0 AND datetime <= datetime('now')
getPendingReminders(R, t) ==
    {r \in DOMAIN R : ~R[r].triggered /\ TextLE(R[r].datetime, SqliteNow(t))}

markReminderTriggered(R, id) == [R EXCEPT ![id].triggered = TRUE]

ReminderNote(R, id) ==
    Note(R[id].user_id, "reminder", [id |-> id], "important", "Reminder", PayloadBody)

\* No reminder: the value of failAt when no _notify call throws.
NoReminder == 0

\* The for loop of _checkReminders.  failAt: the reminder whose _notify call
\* throws (the database or a listener of 'notification' fails); the
\* exception ends the loop.
RECURSIVE triggerReminders(_, _, _, _, _)
triggerReminders(s, R, pending, t, failAt) ==
    IF pending = {} THEN [s |-> s, reminders |-> R, threw |-> FALSE]
    ELSE LET id == CHOOSE x \in pending : \A y \in pending : x <= y
             marked == markReminderTriggered(R, id)
         IN  IF id = failAt
             THEN [s |-> s, reminders |-> marked, threw |-> TRUE]
             ELSE triggerReminders(notify(s, ReminderNote(R, id), t),
                                   marked, pending \ {id}, t, failAt)

\* _checkReminders
checkReminders(s, R, t, failAt) ==
    triggerReminders(s, R, getPendingReminders(R, t), t, failAt)

\* ------------------------------------------------------------ actions
Init ==
    /\ jobs = <<>>
    /\ pulse_log = {}
    /\ running = FALSE
    /\ timers = {}
    /\ notificationQueue = <<>>
    /\ ticks = <<>>
    /\ now = 0
    /\ dispatched = [j \in JobIds |-> 0]
    /\ attempts = [k \in Keys |-> 0]
    /\ emitted = [k \in Keys |-> 0]
    /\ recovered = {}
    /\ thrown = {}
    /\ delayed = 0
    /\ began = {}
    /\ caught = {}
    /\ cancelled = {}
    /\ registeredWebhooks = {}
    /\ hooks = [r \in Repos |-> {}]
    /\ publicUrl = 0
    /\ scans = {}
    /\ reminders = <<>>
    /\ minute = 0
    /\ events = <<>>
    /\ requests = {}
    /\ listeners = 0
    /\ armed = [L \in Loops |-> 0]
    /\ reply = "none"
    /\ processedIssues = {}
    /\ calls = <<>>
    /\ solveStarts = [k \in IssueKeys |-> 0]

\* uuidv4(): an id that no job has had.
UnusedIds == JobIds \ (DOMAIN jobs \cup cancelled)

FreshId == CHOOSE j \in UnusedIds : \A k \in UnusedIds : j <= k

\* schedule_email: the date and time the user gave are read as local time.
ScheduleEmail(userId, local, off) ==
    LET runAt == DateParse(local, off)
    IN  /\ ~MicrotaskPending
        /\ UnusedIds # {}
        /\ IF runAt < now
           THEN jobs' = jobs
           ELSE jobs' = createJob(jobs, FreshId, userId, "send_email",
                                  toISOString(runAt), NoRecurring)
        /\ recovered' = {}
        /\ UNCHANGED <<processedIssues, calls, solveStarts>>
        /\ reply' = "none"
        /\ UNCHANGED armed
        /\ UNCHANGED listeners
        /\ requests' = {}
        /\ UNCHANGED <<reminders, minute, events>>
        /\ UNCHANGED <<registeredWebhooks, hooks, publicUrl, scans>>
        /\ thrown' = {}
        /\ began' = {} /\ caught' = {}
        /\ UNCHANGED <<pulse_log, running, timers, notificationQueue, ticks, now,
                       dispatched, attempts, emitted, delayed, cancelled>>

\* Faulty variant of schedule_action: the recurrence is stored as given.
ScheduleActionUnchecked(userId, local, recurring, off) ==
    /\ ~MicrotaskPending
    /\ UnusedIds # {}
    /\ jobs' = createJob(jobs, FreshId, userId, "reminder",
                         toISOString(DateParse(local, off)), recurring)
    /\ recovered' = {} /\ thrown' = {} /\ began' = {} /\ caught' = {}
    /\ UNCHANGED <<processedIssues, calls, solveStarts>>
    /\ reply' = "none"
    /\ UNCHANGED armed
    /\ UNCHANGED listeners
    /\ requests' = {}
    /\ UNCHANGED <<reminders, minute, events>>
    /\ UNCHANGED <<registeredWebhooks, hooks, publicUrl, scans>>
    /\ UNCHANGED <<pulse_log, running, timers, notificationQueue, ticks, now,
                   dispatched, attempts, emitted, delayed, cancelled>>

\* schedule_action
ScheduleAction(userId, local, recurring, off) ==
    LET runAt == DateParse(local, off)
    IN  /\ ~MicrotaskPending
        /\ UnusedIds # {}
        /\ IF recurring # NoRecurring /\ recurring \notin Recurrences
           THEN jobs' = jobs
           ELSE jobs' = createJob(jobs, FreshId, userId, "reminder",
                                  toISOString(runAt), recurring)
        /\ recovered' = {}
        /\ UNCHANGED <<processedIssues, calls, solveStarts>>
        /\ reply' = "none"
        /\ UNCHANGED armed
        /\ UNCHANGED listeners
        /\ requests' = {}
        /\ UNCHANGED <<reminders, minute, events>>
        /\ UNCHANGED <<registeredWebhooks, hooks, publicUrl, scans>>
        /\ thrown' = {}
        /\ began' = {} /\ caught' = {}
        /\ UNCHANGED <<pulse_log, running, timers, notificationQueue, ticks, now,
                       dispatched, attempts, emitted, delayed, cancelled>>

\* PulseEngine.start
Start(fault, off) ==
    /\ ~MicrotaskPending
    /\ ~running
    /\ Len(ticks) < MaxTicks
    /\ delayed < MaxDelayed
    /\ running' = TRUE
    /\ timers' = Loops
    /\ recovered' = {j \in DOMAIN jobs : jobs[j].status = "running"}
    /\ UNCHANGED <<processedIssues, calls, solveStarts>>
    /\ reply' = "none"
    /\ armed' = [L \in Loops |-> armed[L] + 1]
    /\ listeners' = IF listeners < MaxListeners THEN listeners + 1 ELSE listeners
    /\ requests' = {}
    /\ UNCHANGED <<minute, events>>
    /\ UNCHANGED <<registeredWebhooks, hooks, publicUrl, scans>>
    /\ delayed' = delayed + 1
    /\ began' = EagerLoops /\ caught' = {}
    /\ LET r == runJobs(recoverStuckJobs(Cur), fault, now, off)
           c == checkReminders(r.s, reminders, now, NoReminder)
       IN  /\ Commit(c.s)
           /\ reminders' = c.reminders
           /\ ticks' = ticks \o r.tick
    /\ UNCHANGED <<now, cancelled>>

\* PulseEngine.stop
Stop ==
    /\ ~MicrotaskPending
    /\ running' = FALSE
    /\ timers' = {}
    /\ recovered' = {}
    /\ UNCHANGED <<processedIssues, calls, solveStarts>>
    /\ reply' = "none"
    /\ armed' = [L \in Loops |-> IF L \in timers /\ armed[L] > 0 THEN armed[L] - 1 ELSE armed[L]]
    /\ UNCHANGED listeners
    /\ requests' = {}
    /\ UNCHANGED <<reminders, minute, events>>
    /\ UNCHANGED <<registeredWebhooks, hooks, publicUrl, scans>>
    /\ thrown' = {}
    /\ began' = {} /\ caught' = {}
    /\ UNCHANGED <<jobs, pulse_log, notificationQueue, ticks, now, dispatched, attempts, emitted, delayed, cancelled>>

\* The jobs interval fires: _runJobs.
TimerJobs(fault, off) ==
    /\ ~MicrotaskPending
    /\ "jobs" \in timers
    /\ Len(ticks) < MaxTicks
    /\ LET r == runJobs(Cur, fault, now, off)
       IN  /\ Commit(r.s)
           /\ ticks' = ticks \o r.tick
    /\ recovered' = {}
    /\ UNCHANGED <<processedIssues, calls, solveStarts>>
    /\ reply' = "none"
    /\ UNCHANGED armed
    /\ UNCHANGED listeners
    /\ requests' = {}
    /\ UNCHANGED <<reminders, minute, events>>
    /\ UNCHANGED <<registeredWebhooks, hooks, publicUrl, scans>>
    /\ began' = {"jobs"} /\ caught' = {}
    /\ UNCHANGED <<running, timers, now, delayed, cancelled>>

\* _runJobs resumes after an awaited _executeJob returned: the next job.
ContinueTick(i, fault, off) ==
    /\ i \in 1..Len(ticks)
    /\ ticks[i].pc = "next"
    /\ LET tk == ticks[i]
           r == executeJob(Cur, tk.job, fault, now, off)
       IN  /\ Commit(r.s)
           /\ ticks' = ReplaceAt(ticks, i, tickAfter(<<tk.job>> \o tk.rest, r.awaiting))
    /\ recovered' = {}
    /\ UNCHANGED <<processedIssues, calls, solveStarts>>
    /\ reply' = "none"
    /\ UNCHANGED armed
    /\ UNCHANGED listeners
    /\ requests' = {}
    /\ UNCHANGED <<reminders, minute, events>>
    /\ UNCHANGED <<registeredWebhooks, hooks, publicUrl, scans>>
    /\ began' = {} /\ caught' = {}
    /\ UNCHANGED <<running, timers, now, delayed, cancelled>>

\* The awaited send of _executeSendEmail resolves.
HandlerResolve(i, off) ==
    /\ ~MicrotaskPending
    /\ i \in 1..Len(ticks)
    /\ ticks[i].pc = "await"
    /\ LET tk == ticks[i]
           job == tk.job
       IN  /\ Commit(finishJob(sendEmailSent(Cur, job, now), job, off))
           /\ ticks' = ReplaceAt(ticks, i, tickAfter(<<tk.job>> \o tk.rest, FALSE))
    /\ recovered' = {}
    /\ UNCHANGED <<processedIssues, calls, solveStarts>>
    /\ reply' = "none"
    /\ UNCHANGED armed
    /\ UNCHANGED listeners
    /\ requests' = {}
    /\ UNCHANGED <<reminders, minute, events>>
    /\ UNCHANGED <<registeredWebhooks, hooks, publicUrl, scans>>
    /\ began' = {} /\ caught' = {}
    /\ UNCHANGED <<running, timers, now, delayed, cancelled>>

\* The awaited call of _executeSendEmail rejects (auth or network error).
HandlerReject(i, err) ==
    /\ ~MicrotaskPending
    /\ i \in 1..Len(ticks)
    /\ ticks[i].pc = "await"
    /\ LET tk == ticks[i]
           job == tk.job
       IN  /\ Commit(failJob(Cur, job, err, now))
           /\ ticks' = ReplaceAt(ticks, i, tickAfter(<<tk.job>> \o tk.rest, FALSE))
    /\ recovered' = {}
    /\ UNCHANGED <<processedIssues, calls, solveStarts>>
    /\ reply' = "none"
    /\ UNCHANGED armed
    /\ UNCHANGED listeners
    /\ requests' = {}
    /\ UNCHANGED <<reminders, minute, events>>
    /\ UNCHANGED <<registeredWebhooks, hooks, publicUrl, scans>>
    /\ began' = {} /\ caught' = {}
    /\ UNCHANGED <<running, timers, now, delayed, cancelled>>

\* PulseEngine.getNotifications
GetNotifications ==
    /\ ~MicrotaskPending
    /\ notificationQueue # <<>>
    /\ notificationQueue' = <<>>
    /\ recovered' = {}
    /\ UNCHANGED <<processedIssues, calls, solveStarts>>
    /\ reply' = "none"
    /\ UNCHANGED armed
    /\ UNCHANGED listeners
    /\ requests' = {}
    /\ UNCHANGED <<reminders, minute, events>>
    /\ UNCHANGED <<registeredWebhooks, hooks, publicUrl, scans>>
    /\ thrown' = {}
    /\ began' = {} /\ caught' = {}
    /\ UNCHANGED <<jobs, pulse_log, running, timers, ticks, now, dispatched, attempts, emitted, delayed, cancelled>>

\* The cleanup interval fires: _cleanup.
TimerCleanup ==
    /\ ~MicrotaskPending
    /\ "cleanup" \in timers
    /\ pulse_log' = cleanOldPulseLogs(pulse_log, now)
    /\ attempts' = [k \in Keys |->
                       IF hasPulseNotification(pulse_log', k) THEN attempts[k] ELSE 0]
    /\ emitted' = [k \in Keys |->
                      IF hasPulseNotification(pulse_log', k) THEN emitted[k] ELSE 0]
    /\ recovered' = {}
    /\ UNCHANGED <<processedIssues, calls, solveStarts>>
    /\ reply' = "none"
    /\ UNCHANGED armed
    /\ UNCHANGED listeners
    /\ requests' = {}
    /\ UNCHANGED <<reminders, minute, events>>
    /\ UNCHANGED <<registeredWebhooks, hooks, publicUrl, scans>>
    /\ thrown' = {}
    /\ began' = {"cleanup"} /\ caught' = {}
    /\ UNCHANGED <<jobs, running, timers, notificationQueue, ticks, now, dispatched, delayed, cancelled>>

\* The process dies and a new one is constructed: the store survives.
Crash ==
    /\ running
    /\ running' = FALSE
    /\ timers' = {}
    /\ notificationQueue' = <<>>
    /\ ticks' = <<>>
    /\ recovered' = {}
    /\ processedIssues' = {}
    /\ calls' = <<>>
    /\ solveStarts' = [k \in IssueKeys |-> 0]
    /\ reply' = "none"
    /\ armed' = [L \in Loops |-> 0]
    /\ listeners' = 0
    /\ requests' = {}
    /\ UNCHANGED <<reminders, minute, events>>
    /\ registeredWebhooks' = {}
    /\ publicUrl' = 0
    /\ UNCHANGED <<hooks, scans>>
    /\ thrown' = {}
    /\ delayed' = 0 /\ began' = {} /\ caught' = {}
    /\ UNCHANGED <<jobs, pulse_log, now, dispatched, attempts, emitted, cancelled>>

\* An hour passes.
Advance ==
    /\ ~MicrotaskPending
    /\ now < MaxTime
    /\ now' = now + HOUR
    /\ recovered' = {}
    /\ UNCHANGED <<processedIssues, calls, solveStarts>>
    /\ reply' = "none"
    /\ UNCHANGED armed
    /\ UNCHANGED listeners
    /\ requests' = {}
    /\ UNCHANGED <<reminders, minute, events>>
    /\ UNCHANGED <<registeredWebhooks, hooks, publicUrl, scans>>
    /\ thrown' = {}
    /\ began' = {} /\ caught' = {}
    /\ UNCHANGED <<jobs, pulse_log, running, timers, notificationQueue, ticks,
                   dispatched, attempts, emitted, delayed, cancelled>>

RecurringInputs == Recurrences \cup {NoRecurring, "monthly"}

Next ==
    \/ \E u \in Users, d \in {-1, 0}, off \in TZOffsets :
          ScheduleEmail(u, now + d + off, off)
    \/ \E u \in Users, off \in TZOffsets, r \in RecurringInputs :
          ScheduleAction(u, now + off, r, off)
    \/ \E f \in Faults, off \in TZOffsets : Start(f, off)
    \/ \E f \in Faults, off \in TZOffsets : TimerJobs(f, off)
    \/ \E i \in 1..MaxTicks, f \in Faults, off \in TZOffsets : ContinueTick(i, f, off)
    \/ \E i \in 1..MaxTicks, off \in TZOffsets : HandlerResolve(i, off)
    \/ \E i \in 1..MaxTicks, err \in ErrorMessages : HandlerReject(i, err)
    \/ GetNotifications
    \/ TimerCleanup
    \/ Crash
    \/ Advance

\* The job runner, the ledger and restarts of the process.
Spec == Init /\ [][Next]_vars

\* The same with stop() called while the process lives.
NextWithStop == Next \/ Stop

SpecWithStop == Init /\ [][NextWithStop]_vars

\* ------------------------------------------------------- calendar
\* Times of the calendar check are counted in minutes; an instant t2 is
\* counted in half minutes, because the first check runs 30 s after start().
CalendarCheckEvery == 10    \* INTERVALS.calendarCheck
Lookahead == 20             \* lookahead = now + 20 min
NotifyWindow == 17          \* minutesUntil <= 17
MaxResults == 5
EventDuration == 60         \* create_calendar_event: default duration

\* Math.round(x / 2) for an integer x: a half is rounded up.
RoundHalf(x) == (x + 1) \div 2

RECURSIVE ByStart(_, _)
ByStart(E, S) ==
    IF S = {} THEN <<>>
    ELSE LET m == CHOOSE x \in S : \A y \in S :
                      \/ E[x].start < E[y].start
                      \/ (E[x].start = E[y].start /\ x <= y)
         IN  <<m>> \o ByStart(E, S \ {m})

\* calendar.events.list of a user: the events that end after timeMin and
\* start before timeMax, ordered by start time, at most maxResults of them.
listEvents(E, userId, t2) ==
    LET inRange == {e \in DOMAIN E :
                       /\ E[e].user_id = userId
                       /\ 2 * (E[e].start + EventDuration) > t2
                       /\ 2 * E[e].start < t2 + 2 * Lookahead}
        sorted == ByStart(E, inRange)
    IN  SubSeq(sorted, 1, IF Len(sorted) < MaxResults THEN Len(sorted) ELSE MaxResults)

minutesUntil(E, e, t2) == RoundHalf(2 * E[e].start - t2)

CalendarNote(E, e, mins) ==
    Note(E[e].user_id, "calendar", [id |-> e, date |-> EventDate(E[e].start)],
         "important", ToString(mins), PayloadBody)

\* The for loop of _checkCalendarForUser.
RECURSIVE notifyEvents(_, _, _, _, _)
notifyEvents(s, E, list, t, t2) ==
    IF list = <<>> THEN s
    ELSE LET e == Head(list)
             mins == minutesUntil(E, e, t2)
             n == IF mins >= 0 /\ mins <= NotifyWindow
                  THEN notify(s, CalendarNote(E, e, mins), t) ELSE s
         IN  notifyEvents(n, E, Tail(list), t, t2)

\* _checkCalendarForUser: an error of the Google client is caught and logged.
checkCalendarForUser(s, E, userId, authFails, t, t2) ==
    IF authFails THEN s ELSE notifyEvents(s, E, listEvents(E, userId, t2), t, t2)

\* _checkCalendar: every user in turn.
RECURSIVE checkCalendar(_, _, _, _, _, _)
checkCalendar(s, E, U, authFails, t, t2) ==
    IF U = {} THEN s
    ELSE LET u == CHOOSE x \in U : TRUE
         IN  checkCalendar(checkCalendarForUser(s, E, u, authFails, t, t2),
                           E, U \ {u}, authFails, t, t2)

\* ------------------------------------------------- webhook registration
NoUrl == 0
Urls == 1..MaxUrls
CreateStatuses == {"201", "404"}

\* TunnelManager.start: ngrok hands out a public url.
TunnelStart(url) ==
    /\ ~MicrotaskPending
    /\ publicUrl = NoUrl
    /\ publicUrl' = url
    /\ recovered' = {} /\ thrown' = {} /\ began' = {} /\ caught' = {}
    /\ UNCHANGED <<processedIssues, calls, solveStarts>>
    /\ reply' = "none"
    /\ UNCHANGED armed
    /\ UNCHANGED listeners
    /\ requests' = {}
    /\ UNCHANGED <<reminders, minute, events>>
    /\ UNCHANGED <<jobs, pulse_log, running, timers, notificationQueue, ticks, now,
                   dispatched, attempts, emitted, delayed, cancelled,
                   registeredWebhooks, hooks, scans>>

\* The DELETE requests of the stale hooks: a failed request is ignored.
deleteStaleHooks(existing, deleteFails) == IF deleteFails THEN existing ELSE {}

\* The POST of the new hook: GitHub answers 422 when the repo has the url.
createHook(existing, url, status) ==
    IF url \in existing THEN [hooks |-> existing, status |-> "422"]
    ELSE IF status = "201" THEN [hooks |-> existing \cup {url}, status |-> "201"]
    ELSE [hooks |-> existing, status |-> status]

\* The message of the error that execSync throws: 'Command failed: ', the
\* command line (the repo name, and for the POST the name of the temporary
\* file, which ends in Date.now()) and what gh wrote, the HTTP status included.
ErrorMessage(cmdHas422, status) == [cmdHas422 |-> cmdHas422, status |-> status]

\* errMsg.includes('422')
Includes422(msg) == msg.status = "422" \/ msg.cmdHas422

\* The catch of _registerWebhookForRepo.
catchHookError(s, repo, msg) ==
    IF Includes422(msg) THEN [s EXCEPT !.registered = @ \cup {repo}] ELSE s

Request(repo, method) == [repo |-> repo, method |-> method]

\* Faulty variant of _registerWebhookForRepo: a hook that has the url already
\* is not adopted, it is deleted with the others and created again.
registerWebhookForRepoNoAdopt(s, repo, url, listFails, deleteFails, status, cmdHas422) ==
    LET existing == s.hooks[repo]
        listed == [s EXCEPT !.requests = @ \cup {Request(repo, "GET")}]
    IN  IF url = NoUrl THEN s
        ELSE IF repo \in s.registered THEN s
        ELSE IF listFails THEN catchHookError(listed, repo, ErrorMessage(cmdHas422, "404"))
        ELSE LET kept == deleteStaleHooks(existing, deleteFails)
                 r == createHook(kept, url, status)
                 t == [listed EXCEPT
                          !.hooks[repo] = r.hooks,
                          !.requests = @ \cup {Request(repo, "DELETE") : h \in existing}
                                         \cup {Request(repo, "POST")}]
             IN  IF r.status = "201"
                 THEN [t EXCEPT !.registered = @ \cup {repo}]
                 ELSE catchHookError(t, repo, ErrorMessage(cmdHas422, r.status))

\* _registerWebhookForRepo.  Every url of the tunnel is an ngrok url, so the
\* hooks of this engine are the hooks that the two includes() tests select.
registerWebhookForRepo(s, repo, url, listFails, deleteFails, status, cmdHas422) ==
    LET existing == s.hooks[repo]
        listed == [s EXCEPT !.requests = @ \cup {Request(repo, "GET")}]
    IN  IF url = NoUrl THEN s
        ELSE IF repo \in s.registered THEN s
        ELSE IF listFails THEN catchHookError(listed, repo, ErrorMessage(cmdHas422, "404"))
        ELSE IF existing # {} /\ url \in existing
        THEN [listed EXCEPT !.registered = @ \cup {repo}]
        ELSE LET kept == deleteStaleHooks(existing, deleteFails)
                 r == createHook(kept, url, status)
                 t == [listed EXCEPT
                          !.hooks[repo] = r.hooks,
                          !.requests = @ \cup {Request(repo, "DELETE") : h \in existing}
                                         \cup {Request(repo, "POST")}]
             IN  IF r.status = "201"
                 THEN [t EXCEPT !.registered = @ \cup {repo}]
                 ELSE catchHookError(t, repo, ErrorMessage(cmdHas422, r.status))

CurHooks == [registered |-> registeredWebhooks, hooks |-> hooks, requests |-> {}]

\* The repo:pushed listener calls _registerWebhookForRepo.
EnsureWebhook(repo, listFails, deleteFails, status, cmdHas422) ==
    /\ ~MicrotaskPending
    /\ running
    /\ LET r == registerWebhookForRepo(CurHooks, repo, publicUrl,
                                       listFails, deleteFails, status, cmdHas422)
       IN  /\ registeredWebhooks' = r.registered
           /\ hooks' = r.hooks
           /\ requests' = r.requests
    /\ recovered' = {} /\ thrown' = {} /\ began' = {} /\ caught' = {}
    /\ UNCHANGED <<processedIssues, calls, solveStarts>>
    /\ reply' = "none"
    /\ UNCHANGED armed
    /\ UNCHANGED listeners
    /\ UNCHANGED <<reminders, minute, events>>
    /\ UNCHANGED <<jobs, pulse_log, running, timers, notificationQueue, ticks, now,
                   dispatched, attempts, emitted, delayed, cancelled, publicUrl, scans>>

\* What can go wrong in one call of _registerWebhookForRepo.
HookFaults ==
    [listFails : BOOLEAN, deleteFails : BOOLEAN, status : CreateStatuses,
     cmdHas422 : BOOLEAN]

NoHookFault ==
    [listFails |-> FALSE, deleteFails |-> FALSE, status |-> "201", cmdHas422 |-> FALSE]

\* gh repo list
RepoList == <<"r1", "r2">>

\* The loop of _checkGitHubRepos: one call for every repo.
RECURSIVE registerAll(_, _, _, _)
registerAll(s, list, url, in) ==
    IF list = <<>> THEN s
    ELSE LET repo == Head(list)
             f == in[repo]
             t == registerWebhookForRepo(s, repo, url, f.listFails, f.deleteFails,
                                         f.status, f.cmdHas422)
         IN  registerAll(t, Tail(list), url, in)

\* _checkGitHubRepos: nothing is done while the tunnel has no url.
checkGitHubRepos(s, url, in) ==
    IF url = NoUrl THEN s ELSE registerAll(s, RepoList, url, in)

\* ------------------------------------------------ the reminders loop
UnusedReminderIds == ReminderIds \ DOMAIN reminders

\* create_reminder
CreateReminder(userId, local, off) ==
    /\ ~MicrotaskPending
    /\ UnusedReminderIds # {}
    /\ reminders' = createReminder(reminders,
                                   CHOOSE x \in UnusedReminderIds :
                                       \A y \in UnusedReminderIds : x <= y,
                                   userId, local, off)
    /\ recovered' = {} /\ thrown' = {} /\ began' = {} /\ caught' = {}
    /\ UNCHANGED <<processedIssues, calls, solveStarts>>
    /\ reply' = "none"
    /\ UNCHANGED armed
    /\ UNCHANGED listeners
    /\ requests' = {}
    /\ UNCHANGED <<jobs, pulse_log, running, timers, notificationQueue, ticks, now,
                   dispatched, attempts, emitted, delayed, cancelled,
                   registeredWebhooks, hooks, publicUrl, scans, minute, events>>

\* The reminders interval fires: _checkReminders.
TimerReminders(failAt) ==
    /\ ~MicrotaskPending
    /\ "reminders" \in timers
    /\ LET c == checkReminders(Cur, reminders, now, failAt)
       IN  /\ Commit(c.s)
           /\ reminders' = c.reminders
           /\ caught' = IF c.threw THEN {"reminders"} ELSE {}
    /\ recovered' = {} /\ began' = {"reminders"}
    /\ UNCHANGED <<processedIssues, calls, solveStarts>>
    /\ reply' = "none"
    /\ UNCHANGED armed
    /\ UNCHANGED listeners
    /\ requests' = {}
    /\ UNCHANGED <<running, timers, ticks, now, delayed, cancelled,
                   registeredWebhooks, hooks, publicUrl, scans, minute, events>>

\* ------------------------------------------------ the calendar loop
UnusedEventIds == EventIds \ DOMAIN events

\* create_calendar_event: an event that starts at minute `start`.
CreateEvent(userId, start) ==
    /\ ~MicrotaskPending
    /\ UnusedEventIds # {}
    /\ start >= minute
    /\ events' = events @@ ((CHOOSE x \in UnusedEventIds : \A y \in UnusedEventIds : x <= y)
                            :> [user_id |-> userId, start |-> start, created |-> minute])
    /\ recovered' = {} /\ thrown' = {} /\ began' = {} /\ caught' = {}
    /\ UNCHANGED <<processedIssues, calls, solveStarts>>
    /\ reply' = "none"
    /\ UNCHANGED armed
    /\ UNCHANGED listeners
    /\ requests' = {}
    /\ UNCHANGED <<jobs, pulse_log, running, timers, notificationQueue, ticks, now,
                   dispatched, attempts, emitted, delayed, cancelled,
                   registeredWebhooks, hooks, publicUrl, scans, reminders, minute>>

\* A minute passes in which the calendar interval does not fire.  The timeout
\* of start() fires within the first minute.
MinutePasses ==
    /\ ~MicrotaskPending
    /\ running
    /\ delayed = 0
    /\ minute < MaxMinute
    /\ (minute + 1) % CalendarCheckEvery # 0
    /\ minute' = minute + 1
    /\ recovered' = {} /\ thrown' = {} /\ began' = {} /\ caught' = {}
    /\ UNCHANGED <<processedIssues, calls, solveStarts>>
    /\ reply' = "none"
    /\ UNCHANGED armed
    /\ UNCHANGED listeners
    /\ requests' = {}
    /\ UNCHANGED <<jobs, pulse_log, running, timers, notificationQueue, ticks, now,
                   dispatched, attempts, emitted, delayed, cancelled,
                   registeredWebhooks, hooks, publicUrl, scans, reminders, events>>

\* The calendar interval fires, every 10 minutes after start(): _checkCalendar.
TimerCalendar(authFails) ==
    /\ ~MicrotaskPending
    /\ "calendar" \in timers
    /\ delayed = 0
    /\ minute < MaxMinute
    /\ (minute + 1) % CalendarCheckEvery = 0
    /\ minute' = minute + 1
    /\ Commit(checkCalendar(Cur, events, Users, authFails, now, 2 * (minute + 1)))
    /\ recovered' = {} /\ began' = {"calendar"} /\ caught' = {}
    /\ UNCHANGED <<processedIssues, calls, solveStarts>>
    /\ reply' = "none"
    /\ UNCHANGED armed
    /\ UNCHANGED listeners
    /\ requests' = {}
    /\ UNCHANGED <<running, timers, ticks, now, delayed, cancelled,
                   registeredWebhooks, hooks, publicUrl, scans, reminders, events>>

\* ------------------------------------------------- the other loops
\* Faulty variant of a tick: its body is not wrapped in try/catch.
tickOutcomeUncaught(L, threw) == IF threw THEN "escaped" ELSE "returned"

\* How a tick of loop L ends when its body threw or not: every tick function
\* (_runJobs, _checkReminders, _checkEmails, _checkCalendar, _checkGitHubRepos,
\* _cleanup) has its whole body in try { } catch { console.error }.
tickOutcome(L, threw) == "returned"

\* The interval of the reminders, email, calendar or repos loop fires.  No
\* reminder, mail, calendar event or repository is in the state, so the tick
\* finds nothing to report.
TimerLoop(L) ==
    /\ ~MicrotaskPending
    /\ L \in timers
    /\ tickOutcome(L, FALSE) = "returned"
    /\ began' = {L}
    /\ recovered' = {} /\ thrown' = {} /\ caught' = {}
    /\ UNCHANGED <<processedIssues, calls, solveStarts>>
    /\ reply' = "none"
    /\ UNCHANGED armed
    /\ UNCHANGED listeners
    /\ requests' = {}
    /\ UNCHANGED <<reminders, minute, events>>
    /\ UNCHANGED <<registeredWebhooks, hooks, publicUrl, scans>>
    /\ UNCHANGED <<jobs, pulse_log, running, timers, notificationQueue, ticks, now,
                   dispatched, attempts, emitted, delayed, cancelled>>

\* The setTimeout of start() fires, 30 s after start(): the first email,
\* calendar and repo check.  No mail is in the state.
DelayedChecks ==
    /\ ~MicrotaskPending
    /\ delayed > 0
    /\ delayed' = delayed - 1
    /\ began' = DelayedLoops
    /\ recovered' = {} /\ caught' = {}
    /\ UNCHANGED <<processedIssues, calls, solveStarts>>
    /\ reply' = "none"
    /\ UNCHANGED armed
    /\ UNCHANGED listeners
    /\ \E authFails \in BOOLEAN :
          Commit(checkCalendar(Cur, events, Users, authFails, now, 2 * minute + 1))
    /\ \E in \in [Repos -> HookFaults] :
          LET r == checkGitHubRepos(CurHooks, publicUrl, in)
          IN  /\ registeredWebhooks' = r.registered
              /\ hooks' = r.hooks
              /\ requests' = r.requests
    /\ UNCHANGED <<reminders, minute, events>>
    /\ UNCHANGED <<publicUrl, scans>>
    /\ UNCHANGED <<running, timers, ticks, now, cancelled>>

\* A tick of loop L whose first statement throws (the database call fails).
\* An exception that leaves the callback of a timer ends the process.
TickThrows(L) ==
    /\ ~MicrotaskPending
    /\ L \in timers
    /\ began' = {L}
    /\ recovered' = {} /\ thrown' = {}
    /\ UNCHANGED <<processedIssues, calls, solveStarts>>
    /\ reply' = "none"
    /\ armed' = IF tickOutcome(L, TRUE) = "escaped" THEN [K \in Loops |-> 0] ELSE armed
    /\ listeners' = IF tickOutcome(L, TRUE) = "escaped" THEN 0 ELSE listeners
    /\ requests' = {}
    /\ UNCHANGED <<reminders, minute, events>>
    /\ UNCHANGED <<registeredWebhooks, hooks, publicUrl, scans>>
    /\ IF tickOutcome(L, TRUE) = "escaped"
       THEN /\ running' = FALSE
            /\ timers' = {}
            /\ notificationQueue' = <<>>
            /\ ticks' = <<>>
            /\ delayed' = 0
            /\ caught' = {}
       ELSE /\ caught' = {L}
            /\ UNCHANGED <<running, timers, notificationQueue, ticks, delayed>>
    /\ UNCHANGED <<jobs, pulse_log, now, dispatched, attempts, emitted, cancelled>>

NextLifecycle ==
    \/ \E u \in Users : ScheduleEmail(u, now, 0)
    \/ Start(NoError, 0)
    \/ Stop
    \/ TimerJobs(NoError, 0)
    \/ \E i \in 1..MaxTicks : ContinueTick(i, NoError, 0)
    \/ \E i \in 1..MaxTicks : HandlerResolve(i, 0)
    \/ \E L \in Loops \ {"jobs", "reminders", "cleanup"} : TimerLoop(L)
    \/ TimerReminders(NoReminder)
    \/ TimerCleanup
    \/ DelayedChecks
    \/ \E L \in Loops : TickThrows(L)
    \/ Crash

\* start(), stop() and the ticks of the six loops, with one-time email jobs
\* whose handlers succeed, on a host at UTC.
SpecLifecycle == Init /\ [][NextLifecycle]_vars

\* Faulty variant of start() called while the engine runs: the running guard
\* is missing, so the intervals are armed, the recovery is made and the eager
\* tick is run once more.
StartAgainUnguarded ==
    /\ ~MicrotaskPending
    /\ running
    /\ Len(ticks) < MaxTicks
    /\ timers' = Loops
    /\ armed' = [L \in Loops |-> Bump(armed[L])]
    /\ listeners' = IF listeners < MaxListeners THEN listeners + 1 ELSE listeners
    /\ recovered' = {j \in DOMAIN jobs : jobs[j].status = "running"}
    /\ UNCHANGED <<processedIssues, calls, solveStarts>>
    /\ reply' = "none"
    /\ began' = EagerLoops /\ caught' = {} /\ requests' = {}
    /\ LET r == runJobs(recoverStuckJobs(Cur), NoError, now, 0)
           c == checkReminders(r.s, reminders, now, NoReminder)
       IN  /\ Commit(c.s)
           /\ reminders' = c.reminders
           /\ ticks' = ticks \o r.tick
    /\ UNCHANGED <<running, now, delayed, cancelled, minute, events,
                   registeredWebhooks, hooks, publicUrl, scans>>

\* start() called while the engine runs: it returns at the running guard.
StartAgain ==
    /\ ~MicrotaskPending
    /\ running
    /\ recovered' = {} /\ thrown' = {} /\ began' = {} /\ caught' = {} /\ requests' = {}
    /\ UNCHANGED <<processedIssues, calls, solveStarts>>
    /\ reply' = "none"
    /\ UNCHANGED <<jobs, pulse_log, running, timers, notificationQueue, ticks, now,
                   dispatched, attempts, emitted, delayed, cancelled,
                   registeredWebhooks, hooks, publicUrl, scans,
                   reminders, minute, events, listeners, armed>>

NextStartAgain == NextLifecycle \/ StartAgain

\* The lifecycle with start() also called on a running engine.
SpecStartAgain == Init /\ [][NextStartAgain]_vars

\* One process that is never restarted, with one-time email jobs on a host at
\* UTC.  The timers and the continuations of the event loop always get their
\* turn; nothing makes the awaited call of a handler settle.
NextNoRestart ==
    \/ \E u \in Users : ScheduleEmail(u, now, 0)
    \/ Start(NoError, 0)
    \/ TimerJobs(NoError, 0)
    \/ \E i \in 1..MaxTicks : ContinueTick(i, NoError, 0)
    \/ \E i \in 1..MaxTicks : HandlerResolve(i, 0)
    \/ \E i \in 1..MaxTicks, err \in ErrorMessages : HandlerReject(i, err)
    \/ GetNotifications
    \/ Advance

SpecNoRestart ==
    /\ Init
    /\ [][NextNoRestart]_vars
    /\ WF_vars(TimerJobs(NoError, 0))
    /\ WF_vars(\E i \in 1..MaxTicks : ContinueTick(i, NoError, 0))

\* Faulty variant of cancel_scheduled_job: the job is looked up among the
\* pending jobs of all users.
CancelAnyJob(userId, id) ==
    /\ ~MicrotaskPending
    /\ IF id \in DOMAIN jobs /\ jobs[id].status = "pending"
       THEN /\ jobs' = deleteJob(jobs, id)
            /\ cancelled' = cancelled \cup {id}
            /\ reply' = "cancelled"
       ELSE /\ UNCHANGED <<jobs, cancelled>>
            /\ reply' = "not_found"
    /\ recovered' = {} /\ thrown' = {} /\ began' = {} /\ caught' = {}
    /\ UNCHANGED <<processedIssues, calls, solveStarts>>
    /\ requests' = {}
    /\ UNCHANGED <<pulse_log, running, timers, notificationQueue, ticks, now,
                   dispatched, attempts, emitted, delayed,
                   registeredWebhooks, hooks, publicUrl, scans,
                   reminders, minute, events, listeners, armed>>

\* cancel_scheduled_job
Cancel(userId, id) ==
    /\ ~MicrotaskPending
    /\ IF id \in getJobsByUser(jobs, userId)
       THEN /\ jobs' = deleteJob(jobs, id)
            /\ cancelled' = cancelled \cup {id}
            /\ reply' = "cancelled"
       ELSE /\ UNCHANGED <<jobs, cancelled>>
            /\ reply' = "not_found"
    /\ recovered' = {} /\ thrown' = {} /\ began' = {} /\ caught' = {}
    /\ UNCHANGED <<processedIssues, calls, solveStarts>>
    /\ UNCHANGED armed
    /\ UNCHANGED listeners
    /\ requests' = {}
    /\ UNCHANGED <<reminders, minute, events>>
    /\ UNCHANGED <<registeredWebhooks, hooks, publicUrl, scans>>
    /\ UNCHANGED <<pulse_log, running, timers, notificationQueue, ticks, now,
                   dispatched, attempts, emitted, delayed>>

\* The tools that create and cancel jobs, called with dates that are now or an
\* hour ago, and the job loop of one process on a host at UTC.
NextTools ==
    \/ \E u \in Users, d \in {-1, 0} : ScheduleEmail(u, now + d, 0)
    \/ \E u \in Users, d \in {-1, 0}, r \in {NoRecurring, "hourly", "monthly"} :
          ScheduleAction(u, now + d, r, 0)
    \/ \E u \in Users, id \in JobIds : Cancel(u, id)
    \/ Start(NoError, 0)
    \/ TimerJobs(NoError, 0)
    \/ \E i \in 1..MaxTicks : ContinueTick(i, NoError, 0)
    \/ \E i \in 1..MaxTicks : HandlerResolve(i, 0)
    \/ GetNotifications
    \/ Advance

SpecTools == Init /\ [][NextTools]_vars

\* A second user, who owns no job and calls the tools with the ids of the
\* jobs of the first.
OtherUsers == {"u2"}

NextCancel ==
    \/ NextTools
    \/ \E u \in OtherUsers, id \in JobIds : Cancel(u, id)

SpecCancel == Init /\ [][NextCancel]_vars

\* A row of a type that _executeJob's switch has no case for, written through
\* db.createJob by a caller other than the two tools.
HandlerTypes == {"send_email", "reminder"}

UnknownTypes == {"ping"}

CreateJobDirect(userId, type) ==
    /\ ~MicrotaskPending
    /\ UnusedIds # {}
    /\ jobs' = createJob(jobs, FreshId, userId, type, toISOString(now), NoRecurring)
    /\ recovered' = {}
    /\ UNCHANGED <<processedIssues, calls, solveStarts>>
    /\ reply' = "none"
    /\ UNCHANGED armed
    /\ UNCHANGED listeners
    /\ requests' = {}
    /\ UNCHANGED <<reminders, minute, events>>
    /\ UNCHANGED <<registeredWebhooks, hooks, publicUrl, scans>>
    /\ thrown' = {}
    /\ began' = {} /\ caught' = {}
    /\ UNCHANGED <<pulse_log, running, timers, notificationQueue, ticks, now,
                   dispatched, attempts, emitted, delayed, cancelled>>

NextUnknownType == Next \/ \E u \in Users, ty \in UnknownTypes : CreateJobDirect(u, ty)

SpecUnknownType == Init /\ [][NextUnknownType]_vars

\* ------------------------------------------------- the webhook sync
\* The repos interval fires: _checkGitHubRepos.
CheckGitHubRepos(in) ==
    /\ ~MicrotaskPending
    /\ "repos" \in timers
    /\ LET r == checkGitHubRepos(CurHooks, publicUrl, in)
       IN  /\ registeredWebhooks' = r.registered
           /\ hooks' = r.hooks
           /\ requests' = r.requests
    /\ began' = {"repos"}
    /\ recovered' = {} /\ thrown' = {} /\ caught' = {}
    /\ UNCHANGED <<processedIssues, calls, solveStarts>>
    /\ reply' = "none"
    /\ UNCHANGED armed
    /\ UNCHANGED listeners
    /\ UNCHANGED <<reminders, minute, events>>
    /\ UNCHANGED <<jobs, pulse_log, running, timers, notificationQueue, ticks, now,
                   dispatched, attempts, emitted, delayed, cancelled, publicUrl, scans>>

NextWebhook ==
    \/ Start(NoError, 0)
    \/ Stop
    \/ Crash
    \/ \E url \in Urls : TunnelStart(url)
    \/ \E repo \in Repos, f \in HookFaults :
          EnsureWebhook(repo, f.listFails, f.deleteFails, f.status, f.cmdHas422)
    \/ \E in \in [Repos -> HookFaults] : CheckGitHubRepos(in)

SpecWebhook == Init /\ [][NextWebhook]_vars

\* TunnelManager.stop: the tunnel goes down and the process lives on.
TunnelStop ==
    /\ ~MicrotaskPending
    /\ publicUrl # NoUrl
    /\ publicUrl' = NoUrl
    /\ recovered' = {} /\ thrown' = {} /\ began' = {} /\ caught' = {}
    /\ UNCHANGED <<processedIssues, calls, solveStarts>>
    /\ reply' = "none"
    /\ UNCHANGED armed
    /\ UNCHANGED listeners
    /\ requests' = {}
    /\ UNCHANGED <<reminders, minute, events>>
    /\ UNCHANGED <<jobs, pulse_log, running, timers, notificationQueue, ticks, now,
                   dispatched, attempts, emitted, delayed, cancelled,
                   registeredWebhooks, hooks, scans>>

NextTunnelRestart == NextWebhook \/ TunnelStop

SpecTunnelRestart == Init /\ [][NextTunnelRestart]_vars

\* ------------------------------------------------------ repo guardian
\* new Date().toISOString().split('T')[0]
Today(t) == t \div DAY

\* Faulty variant of the alert key: no day at its end.
AlertKeyUndated(userId, repo, risks, t) ==
    [userId |-> userId, source |-> "github-alert-email",
     sourceId |-> [repo |-> repo, sig |-> riskSignature(risks), day |-> 0]]

\* `email-guardian-${repoFullName}-${riskSignature}-${today}`
AlertKey(userId, repo, risks, t) ==
    [userId |-> userId, source |-> "github-alert-email",
     sourceId |-> [repo |-> repo, sig |-> riskSignature(risks), day |-> Today(t)]]

GuardianNote(userId, repo, risks) ==
    Note(userId, "github", [repo |-> repo, sig |-> riskSignature(risks)],
         IF risks = {} THEN "info" ELSE "urgent", "Push detected", PayloadBody)

\* The alert e-mail of _runGuardianScanRemote: sent unless the ledger has
\* the key of today.
guardianEmail(s, key, t) ==
    IF hasPulseNotification(s.pulse_log, key)
    THEN s
    ELSE [s EXCEPT !.pulse_log = logPulseNotification(@, key, t),
                   !.emitted[key] = Bump(@)]

\* A push reaches the webhook: _runGuardianScanRemote.
GuardianScanRemote(userId, repo, risks) ==
    /\ ~MicrotaskPending
    /\ LET s == guardianEmail(Cur, AlertKey(userId, repo, risks, now), now)
       IN  Commit(notify(s, GuardianNote(userId, repo, risks), now))
    /\ scans' = scans \cup {[userId |-> userId, repo |-> repo, risks |-> risks,
                             day |-> Today(now)]}
    /\ recovered' = {} /\ began' = {} /\ caught' = {}
    /\ UNCHANGED <<processedIssues, calls, solveStarts>>
    /\ reply' = "none"
    /\ UNCHANGED armed
    /\ UNCHANGED listeners
    /\ requests' = {}
    /\ UNCHANGED <<reminders, minute, events>>
    /\ UNCHANGED <<running, timers, ticks, now, delayed, cancelled,
                   registeredWebhooks, hooks, publicUrl>>

\* A day passes.
NextDay ==
    /\ ~MicrotaskPending
    /\ Today(now) < MaxDay
    /\ now' = now + DAY
    /\ recovered' = {} /\ thrown' = {} /\ began' = {} /\ caught' = {}
    /\ UNCHANGED <<processedIssues, calls, solveStarts>>
    /\ reply' = "none"
    /\ UNCHANGED armed
    /\ UNCHANGED listeners
    /\ requests' = {}
    /\ UNCHANGED <<reminders, minute, events>>
    /\ UNCHANGED <<jobs, pulse_log, running, timers, notificationQueue, ticks,
                   dispatched, attempts, emitted, delayed, cancelled,
                   registeredWebhooks, hooks, publicUrl, scans>>

\* The outcomes of the scans: a clean repo, one finding, both findings.
ScanResults == {{}, {"env"}, {"env", "node_modules"}}

NextGuardian ==
    \/ \E u \in Users, repo \in GuardianRepos, risks \in ScanResults :
          GuardianScanRemote(u, repo, risks)
    \/ NextDay

SpecGuardian == Init /\ [][NextGuardian]_vars

\* ----------------------------------------------------- pushed repos
\* The notification of _runGuardianScan; Date.now() differs from scan to
\* scan, so the stamp is the number of the scan.
LocalScanNote(userId, repo, risks, stamp) ==
    Note(userId, "github", [repo |-> repo, stamp |-> stamp],
         IF risks = {} THEN "info" ELSE "urgent", "Repo Guardian", PayloadBody)

\* emit('repo:pushed'): the listeners that start() added are called one after
\* the other.  Each runs _runGuardianScan, which sends its e-mail without
\* asking the ledger and notifies, and then _registerWebhookForRepo.
RECURSIVE pushListeners(_, _, _, _, _, _, _, _)
pushListeners(st, n, userId, repo, risks, url, f, t) ==
    IF n = 0 THEN st
    ELSE LET stamp == Cardinality(st.scans) + 1
             scan == [userId |-> userId, repo |-> repo, risks |-> risks,
                      day |-> Today(t), stamp |-> stamp]
         IN  pushListeners(
                 [s |-> notify(st.s, LocalScanNote(userId, repo, risks, stamp), t),
                  h |-> registerWebhookForRepo(st.h, repo, url, f.listFails,
                                               f.deleteFails, f.status, f.cmdHas422),
                  scans |-> st.scans \cup {scan}],
                 n - 1, userId, repo, risks, url, f, t)

\* push_to_github emits 'repo:pushed'.
RepoPushed(userId, repo, risks, f) ==
    /\ ~MicrotaskPending
    /\ Cardinality(scans) + listeners <= MaxScans
    /\ LET r == pushListeners([s |-> Cur, h |-> CurHooks, scans |-> scans],
                              listeners, userId, repo, risks, publicUrl, f, now)
       IN  /\ Commit(r.s)
           /\ registeredWebhooks' = r.h.registered
           /\ hooks' = r.h.hooks
           /\ requests' = r.h.requests
           /\ scans' = r.scans
    /\ recovered' = {} /\ began' = {} /\ caught' = {}
    /\ UNCHANGED <<processedIssues, calls, solveStarts>>
    /\ reply' = "none"
    /\ UNCHANGED armed
    /\ UNCHANGED <<running, timers, ticks, now, delayed, cancelled, publicUrl,
                   reminders, minute, events, listeners, armed>>

NextPush ==
    \/ Start(NoError, 0)
    \/ Stop
    \/ Crash
    \/ \E url \in Urls : TunnelStart(url)
    \/ \E u \in Users, repo \in GuardianRepos, risks \in ScanResults, f \in HookFaults :
          RepoPushed(u, repo, risks, f)
    \/ GetNotifications

\* Pushes of the user's folders, with the engine started, stopped and restarted.
SpecPush == Init /\ [][NextPush]_vars

\* ------------------------------------------------------------ issues
\* The notification of a pull request that was created; Date.now() differs
\* from solve to solve, so the stamp is the number of the solve.
PRNote(userId, repo, number, stamp) ==
    Note(userId, "github", [pr |-> repo, number |-> number, stamp |-> stamp],
         "info", "[PR]", PayloadBody)

\* The calls of solveIssueAndCreatePR made in this process.
RECURSIVE SumStarts(_, _)
SumStarts(starts, K) ==
    IF K = {} THEN 0
    ELSE LET k == CHOOSE x \in K : TRUE
         IN  starts[k] + SumStarts(starts, K \ {k})

\* The for loop of processNewIssues from `list` on, up to its next await that
\* waits: an issue of the set is skipped, an issue with a pull request is
\* added to the set, and the others are solved.  A solve of a repository that
\* is not accessible returns its failure before it waits for anything, so
\* the loop goes on in the same turn; the other solves wait for the LLM,
\* and the key is added when they have returned.
RECURSIVE processNewIssues(_, _, _, _, _)
processNewIssues(st, repo, list, withPR, accessible) ==
    IF list = <<>> THEN [st EXCEPT !.next = NoIssue, !.rest = <<>>]
    ELSE LET n == Head(list)
             k == IssueKey(repo, n)
         IN  IF k \in st.processed
             THEN processNewIssues(st, repo, Tail(list), withPR, accessible)
             ELSE IF n \in withPR
             THEN processNewIssues([st EXCEPT !.processed = @ \cup {k}],
                                   repo, Tail(list), withPR, accessible)
             ELSE IF accessible
             THEN [st EXCEPT !.starts[k] = @ + 1, !.next = n, !.rest = Tail(list)]
             ELSE processNewIssues(
                      [st EXCEPT !.starts[k] = @ + 1,
                                 !.processed = @ \cup {k},
                                 !.results = Append(@, [number |-> n, success |-> FALSE,
                                                        stamp |-> SumStarts(st.starts, IssueKeys) + 1])],
                      repo, Tail(list), withPR, accessible)

\* The for loop of _handleNewIssues over the results.
RECURSIVE notifyResults(_, _, _, _, _)
notifyResults(s, userId, repo, results, t) ==
    IF results = <<>> THEN s
    ELSE LET r == Head(results)
         IN  notifyResults(IF r.success
                           THEN notify(s, PRNote(userId, repo, r.number, r.stamp), t)
                           ELSE s,
                           userId, repo, Tail(results), t)

\* _handleNewIssue: a webhook delivery of one new issue.
HandleNewIssue(userId, repo, n, accessible) ==
    /\ ~MicrotaskPending
    /\ LET k == IssueKey(repo, n)
       IN  IF k \in processedIssues
           THEN UNCHANGED <<processedIssues, calls, solveStarts>>
           ELSE /\ SumStarts(solveStarts, IssueKeys) < MaxSolves
                /\ processedIssues' = processedIssues \cup {k}
                /\ solveStarts' = [solveStarts EXCEPT ![k] = @ + 1]
                /\ calls' = IF accessible
                            THEN Append(calls,
                                        [path |-> "single", userId |-> userId, repo |-> repo,
                                         number |-> n,
                                         stamp |-> SumStarts(solveStarts, IssueKeys) + 1,
                                         rest |-> <<>>, withPR |-> {}, results |-> <<>>])
                            ELSE calls
    /\ Commit(Cur)
    /\ recovered' = {} /\ began' = {} /\ caught' = {}
    /\ requests' = {}
    /\ reply' = "none"
    /\ UNCHANGED <<running, timers, ticks, now, delayed, cancelled,
                   registeredWebhooks, hooks, publicUrl, scans,
                   reminders, minute, events, listeners, armed>>

\* _handleNewIssues: all open issues of a repository.
HandleNewIssues(userId, repo, open, withPR, accessible) ==
    /\ ~MicrotaskPending
    /\ LET r == processNewIssues([processed |-> processedIssues, starts |-> solveStarts,
                                  results |-> <<>>, next |-> NoIssue, rest |-> <<>>],
                                 repo, open, withPR, accessible)
       IN  /\ SumStarts(r.starts, IssueKeys) <= MaxSolves
           /\ processedIssues' = r.processed
           /\ solveStarts' = r.starts
           /\ IF r.next = NoIssue
              THEN /\ calls' = calls
                   /\ Commit(notifyResults(Cur, userId, repo, r.results, now))
              ELSE /\ calls' = Append(calls,
                                      [path |-> "all", userId |-> userId, repo |-> repo,
                                       number |-> r.next,
                                       stamp |-> SumStarts(r.starts, IssueKeys),
                                       rest |-> r.rest, withPR |-> withPR,
                                       results |-> r.results])
                   /\ Commit(Cur)
    /\ recovered' = {} /\ began' = {} /\ caught' = {}
    /\ requests' = {}
    /\ reply' = "none"
    /\ UNCHANGED <<running, timers, ticks, now, delayed, cancelled,
                   registeredWebhooks, hooks, publicUrl, scans,
                   reminders, minute, events, listeners, armed>>

\* A solveIssueAndCreatePR call that waited returns, and its caller goes on:
\* _handleNewIssue notifies; processNewIssues adds the key and goes on with
\* its loop, and when the loop has ended _handleNewIssues notifies.
SolveSettles(i, success, accessible) ==
    /\ ~MicrotaskPending
    /\ i \in 1..Len(calls)
    /\ LET c == calls[i]
           others == SubSeq(calls, 1, i - 1) \o SubSeq(calls, i + 1, Len(calls))
       IN  IF c.path = "single"
           THEN /\ Commit(IF success
                          THEN notify(Cur, PRNote(c.userId, c.repo, c.number, c.stamp), now)
                          ELSE Cur)
                /\ calls' = others
                /\ UNCHANGED <<processedIssues, solveStarts>>
           ELSE LET r == processNewIssues(
                             [processed |-> processedIssues \cup {IssueKey(c.repo, c.number)},
                              starts |-> solveStarts,
                              results |-> Append(c.results,
                                                 [number |-> c.number, success |-> success,
                                                  stamp |-> c.stamp]),
                              next |-> NoIssue, rest |-> <<>>],
                             c.repo, c.rest, c.withPR, accessible)
                IN  /\ SumStarts(r.starts, IssueKeys) <= MaxSolves
                    /\ processedIssues' = r.processed
                    /\ solveStarts' = r.starts
                    /\ IF r.next = NoIssue
                       THEN /\ calls' = others
                            /\ Commit(notifyResults(Cur, c.userId, c.repo, r.results, now))
                       ELSE /\ calls' = [calls EXCEPT ![i] =
                                            [c EXCEPT !.number = r.next,
                                                      !.stamp = SumStarts(r.starts, IssueKeys),
                                                      !.rest = r.rest,
                                                      !.results = r.results]]
                            /\ Commit(Cur)
    /\ recovered' = {} /\ began' = {} /\ caught' = {}
    /\ requests' = {}
    /\ reply' = "none"
    /\ UNCHANGED <<running, timers, ticks, now, delayed, cancelled,
                   registeredWebhooks, hooks, publicUrl, scans,
                   reminders, minute, events, listeners, armed>>

NextIssues ==
    \/ \E u \in Users, repo \in IssueRepos, n \in IssueNumbers, accessible \in BOOLEAN :
          HandleNewIssue(u, repo, n, accessible)
    \* `gh issue list`: the open issues, the newest first
    \/ \E u \in Users, repo \in IssueRepos, open \in {<<>>, <<1>>, <<2>>, <<2, 1>>},
          withPR \in SUBSET IssueNumbers, accessible \in BOOLEAN :
          HandleNewIssues(u, repo, open, withPR, accessible)
    \/ \E i \in 1..MaxSolves, success \in BOOLEAN, accessible \in BOOLEAN :
          SolveSettles(i, success, accessible)
    \/ GetNotifications

\* Issues that arrive by webhook and by the scan of all open issues, within
\* one process.
SpecIssues == Init /\ [][NextIssues]_vars

\* ---------------------------------------- the reminders specification
NextReminders ==
    \/ \E u \in Users, d \in {0, 1}, off \in TZOffsets :
          CreateReminder(u, now + d + off, off)
    \/ Start(NoError, 0)
    \/ TimerReminders(NoReminder)
    \/ GetNotifications
    \/ Advance
    \/ NextDay

SpecReminders == Init /\ [][NextReminders]_vars

\* The same with _notify calls of the reminders loop that throw.
NextReminderFaults ==
    \/ NextReminders
    \/ \E r \in ReminderIds : TimerReminders(r)

SpecReminderFaults == Init /\ [][NextReminderFaults]_vars

\* The calendar check, from start() on: a user with up to two events.
NextCalendar ==
    \/ Start(NoError, 0)
    \/ \E u \in Users, start \in 0..(MaxMinute + 1) : CreateEvent(u, start)
    \/ MinutePasses
    \/ \E authFails \in BOOLEAN : TimerCalendar(authFails)
    \/ DelayedChecks
    \/ GetNotifications

SpecCalendar == Init /\ [][NextCalendar]_vars

\* ------------------------------------------------------------- claims
JobKey(j, tag) ==
    [userId |-> jobs[j].user_id, source |-> "job", sourceId |-> [id |-> j, tag |-> tag]]

Unit(recurring) ==
    CASE recurring = "hourly" -> HOUR
      [] recurring = "daily" -> DAY
      [] recurring = "weekly" -> WEEK
      [] OTHER -> 0

IsRecurring(j) == jobs[j].recurring \in Recurrences

\* The handler of job j returned in this step: it made its _notify call.
Succeeded(j) == attempts'[JobKey(j, "")] # attempts[JobKey(j, "")]

\* The catch block of _executeJob ran for job j in this step.
Failed(j) == attempts'[JobKey(j, "-error")] # attempts[JobKey(j, "-error")]

\* C1: markRunning is exclusive, so the handler of a job is dispatched at
\* most once in each cycle of the job, whatever ticks overlap.
C1_DispatchedOncePerCycle == \A j \in JobIds : dispatched[j] <= 1

\* C2: a one-time job that is done or failed is never dispatched again by
\* any later tick.
C2_TerminalNeverDispatched ==
    [][\A j \in DOMAIN jobs :
          (jobs[j].recurring = NoRecurring /\ jobs[j].status \in {"done", "failed"})
              => dispatched'[j] = dispatched[j]]_vars

\* C3: after a recurring job scheduled for T executed successfully, its row
\* exists with status pending and run_at = T + one recurrence unit.
C3_RecurringRearmed ==
    [][\A j \in DOMAIN jobs :
          (IsRecurring(j) /\ jobs[j].status = "pending" /\ Succeeded(j))
              => /\ j \in DOMAIN jobs'
                 /\ jobs'[j].status = "pending"
                 /\ jobs'[j].run_at = jobs[j].run_at + Unit(jobs[j].recurring)]_vars

\* C4: the next run computed for a stored recurring job is its scheduled
\* run_at plus exactly one unit, whatever the host's offset from UTC.
C4_NextRunExact ==
    \A j \in DOMAIN jobs : \A off \in TZOffsets :
        IsRecurring(j) =>
            calculateNextRun(jobs[j].run_at, jobs[j].recurring, off).at
                = jobs[j].run_at + Unit(jobs[j].recurring)

\* C5: a recurring job whose handler failed is re-armed: after the failed
\* cycle it is pending with run_at advanced by one recurrence unit.
C5_FailedRecurringRearmed ==
    [][\A j \in DOMAIN jobs :
          (IsRecurring(j) /\ Failed(j))
              => /\ j \in DOMAIN jobs'
                 /\ jobs'[j].status = "pending"
                 /\ jobs'[j].run_at = jobs[j].run_at + Unit(jobs[j].recurring)]_vars

\* A tick that start() began holds job j: it awaits it or will dispatch it.
InTick(tk, j) == tk.job.id = j \/ \E i \in 1..Len(tk.rest) : tk.rest[i].id = j

\* C6: start() recovers before its first tick.  Every job found running is
\* made pending and is in the list of the tick start() runs, no row is left
\* running without a tick that awaits it, and rows that are done, failed or
\* not due are as they were.
C6_RecoverBeforeFirstTick ==
    [][(~running /\ running') =>
          \A j \in DOMAIN jobs :
              /\ jobs[j].status = "running"
                    => /\ Len(ticks') = Len(ticks) + 1
                       /\ InTick(ticks'[Len(ticks')], j)
              /\ jobs'[j].status = "running"
                    => \E i \in 1..Len(ticks') :
                          ticks'[i].pc = "await" /\ ticks'[i].job.id = j
              /\ jobs[j].status \in {"done", "failed"} => jobs'[j] = jobs[j]
              /\ (jobs[j].status = "pending" /\ jobs[j].run_at > now)
                    => jobs'[j] = jobs[j]]_vars

C6_Witness ==
    /\ running
    /\ \E j \in recovered : \E i \in 1..Len(ticks) :
          ticks[i].pc = "await" /\ ticks[i].job.id = j

\* C7: ticks of the job loop never overlap.
C7_TicksNeverOverlap == Len(ticks) <= 1

\* C8: while a key's record is in the ledger, exactly the first _notify with
\* that key has enqueued a notification and no later one has.
C8_FirstAttemptOnly ==
    \A k \in Keys :
        /\ hasPulseNotification(pulse_log, k) <=> attempts[k] > 0
        /\ emitted[k] = IF attempts[k] > 0 THEN 1 ELSE 0

C8_Witness ==
    \E k \in Keys : attempts[k] >= 2 /\ emitted[k] = 1 /\ hasPulseNotification(pulse_log, k)

Enqueued ==
    IF Len(notificationQueue') > Len(notificationQueue)
    THEN {notificationQueue'[i] : i \in (Len(notificationQueue) + 1)..Len(notificationQueue')}
    ELSE {}

\* C9: a notification is enqueued only in a step that inserts its ledger
\* record, and a _notify whose key is already in the ledger returns to its
\* caller: the job that called it does not take the failure path.
C9_InsertGatesEmission ==
    [][/\ \A n \in Enqueued :
             /\ ~hasPulseNotification(pulse_log, KeyOf(n))
             /\ hasPulseNotification(pulse_log', KeyOf(n))
       /\ \A k \in Keys : emitted'[k] > emitted[k] => \E n \in Enqueued : KeyOf(n) = k
       /\ \A j \in DOMAIN jobs :
             (Succeeded(j) /\ hasPulseNotification(pulse_log, JobKey(j, "")))
                 => ~Failed(j)]_vars

C9_Witness ==
    \E i \in 1..Len(notificationQueue) :
        /\ hasPulseNotification(pulse_log, KeyOf(notificationQueue[i]))
        /\ attempts[KeyOf(notificationQueue[i])] >= 2

\* C10: every failed attempt of a job has produced its own failure
\* notification.
C10_OneNotificationPerFailure ==
    \A j \in DOMAIN jobs : emitted[JobKey(j, "-error")] = attempts[JobKey(j, "-error")]

\* C11: when a handler throws, the job's row is failed after that step, and a
\* failure notification enqueued by the step carries the job's type and the
\* message of the error that was thrown.
C11_FailureRecorded ==
    [][/\ \A e \in thrown' :
             e.id \in DOMAIN jobs' => jobs'[e.id].status = "failed"
       /\ \A n \in Enqueued :
             n.sourceId.tag = "-error"
                 => \E e \in thrown' :
                       /\ e.id = n.sourceId.id
                       /\ e.id \in DOMAIN jobs /\ e.type = jobs[e.id].type
                       /\ n.body = FailureBody(e.type, e.message)]_vars

C11_Witness ==
    /\ thrown # {}
    /\ notificationQueue # <<>>
    /\ \E e \in thrown :
          LET n == notificationQueue[Len(notificationQueue)]
          IN  /\ n.sourceId = [id |-> e.id, tag |-> "-error"]
              /\ n.body = FailureBody(e.type, e.message)
              /\ jobs[e.id].status = "failed"

\* C12: a job whose type has no handler ends its cycle failed, never done.
C12_UnknownTypeFails ==
    \A j \in DOMAIN jobs : jobs[j].type \notin HandlerTypes => jobs[j].status # "done"

\* C13: start() arms every loop and at once runs a tick of every loop.
C13_EagerTickOfEveryLoop ==
    [][(~running /\ running') => (timers' = Loops /\ began' = Loops)]_vars

\* C13 as amended: start() arms every loop, at once runs a tick of the jobs and
\* of the reminders loop only, and schedules one delayed call for the first
\* email, calendar and repos check; the cleanup loop gets no eager tick.
C13_EagerJobsAndReminders ==
    [][(~running /\ running')
          => /\ timers' = Loops
             /\ began' = {"jobs", "reminders"}
             /\ delayed' = delayed + 1]_vars

C13_Witness ==
    running /\ timers = Loops /\ began = {"jobs", "reminders"} /\ delayed = 1

\* C14: while the engine is stopped, no tick of any loop begins.
C14_NoTickWhileStopped ==
    [][(~running /\ ~running') => began' = {}]_vars

C16_RunningEventuallyLeaves ==
    \A j \in JobIds :
        (j \in DOMAIN jobs /\ jobs[j].status = "running")
            ~> (j \in DOMAIN jobs /\ jobs[j].status # "running")

\* C17: no tool inserts a row whose run_at is earlier than now.
C17_PastRunAtRejected ==
    [][\A j \in DOMAIN jobs' \ DOMAIN jobs : jobs'[j].run_at >= now]_vars

\* C18: every stored job has a recurrence of none, hourly, daily or weekly, so
\* _calculateNextRun finds a next run for every job that has a recurrence.
C18_RecurrenceValidated ==
    \A j \in DOMAIN jobs :
        /\ jobs[j].recurring \in Recurrences \cup {NoRecurring}
        /\ jobs[j].recurring # NoRecurring
              => \A off \in TZOffsets :
                    calculateNextRun(jobs[j].run_at, jobs[j].recurring, off).ok

C18_Witness ==
    \E j \in DOMAIN jobs :
        IsRecurring(j) /\ jobs[j].status = "pending" /\ emitted[JobKey(j, "")] = 1

\* C19: a job that cancel deleted is never dispatched afterwards and its row
\* does not come back.
C19_CancelledNeverRuns ==
    [][\A j \in cancelled : dispatched'[j] = dispatched[j] /\ j \notin DOMAIN jobs']_vars

\* C20: whatever calls of _registerWebhookForRepo were made, a repo never has
\* two webhooks of this engine, and a repo taken as registered has one.
C20_OneRegistrationPerRepo ==
    \A repo \in Repos :
        /\ Cardinality(hooks[repo]) <= 1
        /\ repo \in registeredWebhooks => Cardinality(hooks[repo]) = 1

\* C21: a call of _registerWebhookForRepo that meets no error leaves the repo
\* with the hook of the current public url and no other, also when the repo
\* was put into _registeredWebhooks under an earlier url.
C21_StaleUrlReRegistered ==
    [][\A repo \in Repos :
          (EnsureWebhook(repo, FALSE, FALSE, "201", FALSE) /\ publicUrl # NoUrl)
              => (hooks'[repo] = {publicUrl} /\ repo \in registeredWebhooks')]_vars

\* C22: in a tick of _checkGitHubRepos every repo gets its call of
\* _registerWebhookForRepo, whatever happened to the repos before it; a call
\* that ends in an error other than the conflict answer 422 does not record
\* its repo, and a call that meets no error records it.
C22_HookErrorsSkipRepo ==
    [][\A in \in [Repos -> HookFaults] :
          (CheckGitHubRepos(in) /\ publicUrl # NoUrl) =>
              \A repo \in Repos \ registeredWebhooks :
                  /\ in[repo] = NoHookFault => repo \in registeredWebhooks'
                  /\ (in[repo].listFails
                        \/ (publicUrl \notin hooks[repo] /\ in[repo].status # "201"))
                      => repo \notin registeredWebhooks']_vars

\* C23: a scan sends the alert e-mail exactly when no earlier scan of the same
\* day had the same user, repo and finding set, and enqueues the notification
\* exactly when no earlier scan at all had them: a repeated finding set is
\* suppressed, a finding set that differs in one finding is alerted anew.
\* Two finding sets that differ have signatures that differ.
C23_SignatureDedup ==
    [][\A u \in Users, repo \in GuardianRepos, risks \in ScanResults :
          GuardianScanRemote(u, repo, risks) =>
              LET k == AlertKey(u, repo, risks, now)
                  n == KeyOf(GuardianNote(u, repo, risks))
                  seenToday == \E e \in scans :
                      /\ e.userId = u /\ e.repo = repo
                      /\ e.risks = risks /\ e.day = Today(now)
                  seen == \E e \in scans :
                      e.userId = u /\ e.repo = repo /\ e.risks = risks
              IN  /\ \A r1, r2 \in SUBSET Findings :
                        r1 # r2 => riskSignature(r1) # riskSignature(r2)
                  /\ emitted'[k] = (IF seenToday THEN emitted[k] ELSE 1)
                  /\ emitted[k] <= 1
                  /\ emitted'[n] = (IF seen THEN emitted[n] ELSE 1)
                  /\ Len(notificationQueue') =
                        Len(notificationQueue) + (IF seen THEN 0 ELSE 1)]_vars

\* Two scans of the same finding set on one day, and a scan of another
\* finding set on that day, have been made.
C23_Witness ==
    \E e1 \in scans, e2 \in scans :
        /\ e1.day = e2.day /\ e1.repo = e2.repo /\ e1.risks # e2.risks
        /\ e1.risks # {} /\ e2.risks # {}
        /\ attempts[KeyOf(GuardianNote(e1.userId, e1.repo, e1.risks))] = 2
        /\ emitted[AlertKey(e1.userId, e1.repo, e1.risks, e1.day * DAY)] = 1
        /\ emitted[AlertKey(e2.userId, e2.repo, e2.risks, e2.day * DAY)] = 1

\* C29, as stated: a scan alerts, by e-mail and by notification, exactly when
\* no earlier scan of the same day had the same user, repo and finding set.
C29_AlertOncePerDay ==
    [][\A u \in Users, repo \in GuardianRepos, risks \in ScanResults :
          GuardianScanRemote(u, repo, risks) =>
              LET k == AlertKey(u, repo, risks, now)
                  seenToday == \E e \in scans :
                      /\ e.userId = u /\ e.repo = repo
                      /\ e.risks = risks /\ e.day = Today(now)
                  sent == IF seenToday THEN 0 ELSE 1
              IN  /\ emitted'[k] = emitted[k] + sent
                  /\ Len(notificationQueue') = Len(notificationQueue) + sent]_vars

\* C29, amended: the alert e-mail is sent exactly when no earlier scan of the
\* same day had the same user, repo and finding set, so once a day and again
\* on the first scan of a later day; the notification is enqueued by the
\* first scan only.
C29_EmailOncePerDay ==
    [][\A u \in Users, repo \in GuardianRepos, risks \in ScanResults :
          GuardianScanRemote(u, repo, risks) =>
              LET k == AlertKey(u, repo, risks, now)
                  seenToday == \E e \in scans :
                      /\ e.userId = u /\ e.repo = repo
                      /\ e.risks = risks /\ e.day = Today(now)
                  seen == \E e \in scans :
                      e.userId = u /\ e.repo = repo /\ e.risks = risks
              IN  /\ emitted'[k] = emitted[k] + (IF seenToday THEN 0 ELSE 1)
                  /\ seen => notificationQueue' = notificationQueue]_vars

\* The same finding set was scanned on two days and alerted by e-mail on both.
C29_Witness ==
    \E e1 \in scans, e2 \in scans :
        /\ e1.day < e2.day /\ e1.repo = e2.repo /\ e1.risks = e2.risks
        /\ e1.risks # {}
        /\ emitted[AlertKey(e1.userId, e1.repo, e1.risks, e1.day * DAY)] = 1
        /\ emitted[AlertKey(e2.userId, e2.repo, e2.risks, e2.day * DAY)] = 1
        /\ emitted[KeyOf(GuardianNote(e1.userId, e1.repo, e1.risks))] = 1

\* C24: the queue changes in two ways only: _notify appends at its end, and
\* getNotifications returns all of it, in order, and empties it; so every
\* notification that was queued is returned once, in the order of the queue.
C24_QueuedIsReturnedOnce ==
    [][\/ /\ Len(notificationQueue') >= Len(notificationQueue)
          /\ SubSeq(notificationQueue', 1, Len(notificationQueue)) = notificationQueue
       \/ GetNotifications]_vars

\* C25: every job that a tick dispatches is, when it is dispatched, a row
\* with status pending whose run_at is not after now.
C25_DispatchesDuePending ==
    [][\A j \in JobIds :
          dispatched'[j] > dispatched[j]
              => /\ j \in DOMAIN jobs
                 /\ jobs[j].status = "pending"
                 /\ jobs[j].run_at <= now]_vars

\* C28: the run_at of a recurring job never moves backwards, and an execution
\* of the job moves it forwards by exactly one unit of its recurrence and
\* leaves the job pending, so a job that is units behind is dispatched by
\* tick after tick until its run_at is in the future.
C28_CatchUpOneUnit ==
    [][\A j \in DOMAIN jobs :
          IsRecurring(j) /\ j \in DOMAIN jobs'
              => /\ jobs'[j].run_at >= jobs[j].run_at
                 /\ Succeeded(j)
                       => /\ jobs'[j].run_at = jobs[j].run_at + Unit(jobs[j].recurring)
                          /\ jobs'[j].status = "pending"]_vars

\* C27: a tick of the reminders loop triggers the untriggered reminders whose
\* instant is not after now, and no other; each of them is notified.
C27_ReminderFiresAtItsTime ==
    [][("reminders" \in began') =>
          \A r \in DOMAIN reminders :
              ~reminders[r].triggered
                  => /\ reminders'[r].triggered <=> reminders[r].instant <= now
                     /\ reminders'[r].triggered
                           => emitted'[KeyOf(ReminderNote(reminders, r))] = 1]_vars

\* C26: the meeting brief of an event is emitted once, and for an event that
\* was in the calendar 10 minutes before its start it is emitted 10 minutes
\* before the start.
C26_BriefTenMinutesBefore ==
    [][\A e \in DOMAIN events :
          LET k == KeyOf(CalendarNote(events, e, 0))
          IN  /\ emitted'[k] <= 1
              /\ (emitted'[k] > emitted[k] /\ events[e].created + 10 <= events[e].start)
                    => events[e].start - minute' = 10]_vars

\* C30: when the set lacks a repo and GitHub has a hook of the repo with the
\* url of the tunnel, _registerWebhookForRepo sends no POST and no DELETE and
\* leaves the hooks as they are, whatever fails; it changes the set by at most
\* this repo, and adds the repo when the list request is answered.
C30_AdoptsExistingHook ==
    [][\A repo \in Repos, f \in HookFaults :
          (/\ repo \notin registeredWebhooks
           /\ publicUrl # NoUrl
           /\ publicUrl \in hooks[repo]
           /\ EnsureWebhook(repo, f.listFails, f.deleteFails, f.status, f.cmdHas422))
          => /\ \A q \in requests' : q.method = "GET"
             /\ hooks' = hooks
             /\ registeredWebhooks' \subseteq registeredWebhooks \cup {repo}
             /\ ~f.listFails => registeredWebhooks' = registeredWebhooks \cup {repo}]_vars

\* After a restart a repo whose hook has the url of the tunnel is back in the
\* set, and the step that put it there sent one list request and nothing else.
C30_Witness ==
    \E repo \in Repos :
        /\ requests = {Request(repo, "GET")}
        /\ repo \in registeredWebhooks
        /\ publicUrl # NoUrl
        /\ hooks[repo] = {publicUrl}

\* C31: when a repo that is not in the set has hooks of this engine and none
\* with the url of the tunnel, a call of _registerWebhookForRepo that sends the
\* POST has sent the DELETE requests, and a call that records the repo leaves
\* the repo with the hook of the tunnel's url and no stale hook.
C31_StaleDeletedBeforeCreate ==
    [][\A repo \in Repos, f \in HookFaults :
          (/\ repo \notin registeredWebhooks
           /\ publicUrl # NoUrl
           /\ hooks[repo] # {}
           /\ publicUrl \notin hooks[repo]
           /\ EnsureWebhook(repo, f.listFails, f.deleteFails, f.status, f.cmdHas422))
          => /\ Request(repo, "POST") \in requests'
                    => Request(repo, "DELETE") \in requests'
             /\ repo \in registeredWebhooks' => hooks'[repo] = {publicUrl}]_vars

\* C32: every cycle of a recurring reminder job whose handler returns enqueues
\* a notification, the later cycles as the first one.
C32_EveryCycleNotifies ==
    [][\A j \in DOMAIN jobs :
          (IsRecurring(j) /\ jobs[j].type = "reminder" /\ Succeeded(j))
              => emitted'[JobKey(j, "")] # emitted[JobKey(j, "")]]_vars

\* C33: start() after stop() leaves alone a job whose handler is in flight in
\* this process: the job stays running and is not in the list of the tick
\* that start() runs.
C33_RestartSparesInFlight ==
    [][(~running /\ running') =>
          \A j \in DOMAIN jobs :
              (/\ jobs[j].status = "running"
               /\ \E i \in 1..Len(ticks) : ticks[i].pc = "await" /\ ticks[i].job.id = j)
              => /\ jobs'[j].status = "running"
                 /\ Len(ticks') > Len(ticks) => ~InTick(ticks'[Len(ticks')], j)]_vars

\* C34: a step in which the handler of a job throws does not end the tick of
\* the job.  The tick goes on with the next job of its list as its queued
\* continuation, no job that a tick still has to dispatch is dropped, and a
\* tick that begins with the failing job holds every other due pending job.
C34_FailureKeepsTickGoing ==
    [][thrown' # {} =>
          /\ \A i \in 1..Len(ticks) :
                (/\ ticks[i].rest # <<>>
                 /\ Len(ticks') = Len(ticks)
                 /\ ticks'[i] # ticks[i])
                => ticks'[i] = [job |-> Head(ticks[i].rest),
                                rest |-> Tail(ticks[i].rest), pc |-> "next"]
          /\ \A i \in 1..Len(ticks) : \A n \in 1..Len(ticks[i].rest) :
                \E m \in 1..Len(ticks') : InTick(ticks'[m], ticks[i].rest[n].id)
          /\ "jobs" \in began' =>
                \A k \in DOMAIN jobs :
                    (/\ jobs[k].status = "pending"
                     /\ jobs[k].run_at <= now
                     /\ \A e \in thrown' : e.id # k)
                    => /\ Len(ticks') = Len(ticks) + 1
                       /\ InTick(ticks'[Len(ticks')], k)]_vars

\* The handler of a job has just thrown, the job is failed, and the tick has
\* the next job of its list queued.
C34_Witness ==
    \E e \in thrown : \E i \in 1..Len(ticks) :
        /\ e.id \in DOMAIN jobs
        /\ jobs[e.id].status = "failed"
        /\ ticks[i].pc = "next"
        /\ ticks[i].job.id # e.id

\* C35: a push while the engine runs makes one guardian scan, and a push
\* while the engine is stopped makes none.
C35_OneScanPerPush ==
    [][\A u \in Users, repo \in GuardianRepos, risks \in ScanResults, f \in HookFaults :
          RepoPushed(u, repo, risks, f)
              => Cardinality(scans') = Cardinality(scans) + (IF running THEN 1 ELSE 0)]_vars

\* C36: no loop ever has more than one interval that is not cleared, the loops
\* with an interval are the loops of this.timers, and start() on a running
\* engine arms nothing, recovers nothing and runs no tick.
C36_OneTimerPerLoop ==
    [][/\ \A L \in Loops : armed'[L] = IF L \in timers' THEN 1 ELSE 0
       /\ StartAgain => /\ armed' = armed /\ timers' = timers
                        /\ jobs' = jobs /\ ticks' = ticks
                        /\ began' = {} /\ recovered' = {}
                        /\ UNCHANGED <<processedIssues, calls, solveStarts>>
                        /\ reply' = "none"
                        /\ listeners' = listeners]_vars

\* The engine runs with its six intervals armed, after a stop and a second
\* start, and start() was just called again.
C36_Witness ==
    /\ running
    /\ timers = Loops
    /\ \A L \in Loops : armed[L] = 1
    /\ listeners = 2
    /\ began = {} /\ recovered = {}

\* C37: a reminder is marked triggered exactly when its notification was
\* enqueued, and the notification is enqueued once.
C37_TriggeredIsEmittedOnce ==
    \A r \in DOMAIN reminders :
        LET k == KeyOf(ReminderNote(reminders, r))
        IN  /\ emitted[k] <= 1
            /\ reminders[r].triggered <=> emitted[k] = 1

\* C38: a call of cancel_scheduled_job leaves every job of another user as
\* it is, and a call with an id that is not a pending job of the caller
\* reports not found and changes no row.
C38_CancelOwnJobsOnly ==
    [][\A u \in Users \cup OtherUsers, id \in JobIds :
          Cancel(u, id)
              => /\ \A j \in DOMAIN jobs :
                       jobs[j].user_id # u => (j \in DOMAIN jobs' /\ jobs'[j] = jobs[j])
                 /\ (\/ id \notin DOMAIN jobs
                     \/ jobs[id].user_id # u
                     \/ jobs[id].status # "pending")
                       => (reply' = "not_found" /\ jobs' = jobs /\ cancelled' = cancelled)]_vars

\* Every job is a pending job of the first user and a call has just reported
\* not found: the call of the second user.
C38_Witness ==
    /\ reply = "not_found"
    /\ DOMAIN jobs = JobIds
    /\ \A j \in JobIds : jobs[j].status = "pending" /\ jobs[j].user_id \in Users

\* C39: for each issue key, solveIssueAndCreatePR is called at most once in
\* the life of a process, whichever of _handleNewIssue and _handleNewIssues
\* sees the issue and however the first call ends.
C39_SolveStartedOnce ==
    \A k \in IssueKeys : solveStarts[k] <= 1

====
